---- MODULE Spec2Model ----
(***************************************************************************)
(* A model of bili's orchestrator (src/index.js): the Bili class with its  *)
(* options and its `bundles` map, bundle() with its per-task async         *)
(* closures, createConfig() and the helpers it calls (getFilename,         *)
(* getSuffix, loadUserPlugins, getJsPlugin, handleLoadPluginError) and     *)
(* nextTick().                                                             *)
(*                                                                         *)
(* Strings that the code takes apart (file names, filename patterns,       *)
(* format entries) are sequences of one-character strings, so that         *)
(* endsWith, replace, basename, extname and the template are computed.     *)
(* Strings the code only compares or concatenates (plugin names, module    *)
(* names) are TLA+ strings.  An error message is the sequence of the       *)
(* pieces the code concatenates; message.includes(x) looks for the piece.  *)
(***************************************************************************)
EXTENDS Naturals, Sequences, FiniteSets, TLC

----------------------------------------------------------------------------
(* String primitives of JavaScript and of node's path module.              *)

\* String.prototype.endsWith
EndsWith(s, suf) ==
    /\ Len(suf) <= Len(s)
    /\ SubSeq(s, Len(s) - Len(suf) + 1, Len(s)) = suf

\* s has `sub` at position i
MatchAt(s, sub, i) ==
    /\ i + Len(sub) - 1 <= Len(s)
    /\ SubSeq(s, i, i + Len(sub) - 1) = sub

\* String.prototype.includes
Includes(s, sub) ==
    \E i \in 1..(Len(s) + 1) : MatchAt(s, sub, i)

\* the position of the last occurrence of character c in s, 0 when none
LastIndexOf(s, c) ==
    LET hits == {i \in 1..Len(s) : s[i] = c}
    IN  IF hits = {} THEN 0 ELSE CHOOSE i \in hits : \A j \in hits : j <= i

\* every occurrence of token in s replaced by val, scanning left to right
RECURSIVE ReplaceAll(_, _, _)
ReplaceAll(s, token, val) ==
    IF s = <<>> THEN <<>>
    ELSE IF MatchAt(s, token, 1)
         THEN val \o ReplaceAll(SubSeq(s, Len(token) + 1, Len(s)), token, val)
         ELSE <<s[1]>> \o ReplaceAll(Tail(s), token, val)

\* path.basename(p): what follows the last "/" (no path here ends in "/")
basename1(p) ==
    SubSeq(p, LastIndexOf(p, "/") + 1, Len(p))

\* path.extname(p): from the last "." of the base name to its end; empty when
\* there is none, when it is the base name's first character, or for ".."
extname(p) ==
    LET b == basename1(p)
        d == LastIndexOf(b, ".")
    IN  IF d <= 1 \/ b = <<".", ".">> THEN <<>> ELSE SubSeq(b, d, Len(b))

\* path.basename(p, ext): the base name, without ext when it ends with it and
\* is not ext itself
basename(p, ext) ==
    LET b == basename1(p)
    IN  IF ext # <<>> /\ EndsWith(b, ext) /\ b # ext
        THEN SubSeq(b, 1, Len(b) - Len(ext))
        ELSE b

----------------------------------------------------------------------------
(* The strings of the model.                                               *)

cjs == <<"c", "j", "s">>
es == <<"e", "s">>
umd == <<"u", "m", "d">>
foo == <<"f", "o", "o">>
MinMarker == <<"-", "m", "i", "n">>
DotMin == <<".", "m", "i", "n">>
NameToken == <<"[", "n", "a", "m", "e", "]">>
SuffixToken == <<"[", "s", "u", "f", "f", "i", "x", "]">>
DotJs == <<".", "j", "s">>
DotCss == <<".", "c", "s", "s">>

SrcIndexJs == <<"s", "r", "c", "/", "i", "n", "d", "e", "x", ".", "j", "s">>
SrcFooJs == <<"s", "r", "c", "/", "f", "o", "o", ".", "j", "s">>
LibIndexJs == <<"l", "i", "b", "/", "i", "n", "d", "e", "x", ".", "j", "s">>
Dist == <<"d", "i", "s", "t">>

\* filename patterns: the constructor's default and patterns a user may set
DefaultFilename == NameToken \o SuffixToken \o DotJs
NameOnlyFilename == NameToken \o DotJs
DirFilename == <<"l", "i", "b", "/">> \o NameToken \o SuffixToken \o DotJs
BareFilename == NameToken \o SuffixToken
OutJsFilename == <<"o", "u", "t", ".", "j", "s">>

----------------------------------------------------------------------------
(* Errors.  kind is the class the code constructs (BiliError, Error) or,   *)
(* for an error that comes from outside (require, a plugin, rollup), the   *)
(* class it arrived with; origin tells the objects apart.                  *)

NoError == [kind |-> "none", code |-> "", message |-> <<>>, origin |-> ""]

\* new BiliError(msg)
BiliError(msg) == [kind |-> "BiliError", code |-> "", message |-> msg, origin |-> "bili"]

\* new Error(msg)
PlainError(msg) == [kind |-> "Error", code |-> "", message |-> msg, origin |-> "bili"]

Returned(v) == [thrown |-> FALSE, value |-> v, error |-> NoError]
Thrown(e) == [thrown |-> TRUE, value |-> <<>>, error |-> e]

----------------------------------------------------------------------------
(* Filename Templater and Format Suffix Resolver.                          *)

\* ./template: every [name] and [suffix] of the pattern replaced
template(filename, name, suffix) ==
    ReplaceAll(ReplaceAll(filename, NameToken, name), SuffixToken, suffix)

getSuffix(format) ==
    IF format = cjs THEN Returned(<<".">> \o cjs)
    ELSE IF format = umd THEN Returned(<<>>)
    ELSE IF format = es THEN Returned(<<".", "m">>)
    ELSE Thrown(PlainError(<<"unsupported format">>))

getNameFromInput(input) ==
    basename(input, extname(input))

\* name is the `name` option, <<>> when it is not set
getFilename(input, format, filename, compress, name) ==
    LET nm == IF name # <<>> THEN name ELSE getNameFromInput(input)
        suffix == getSuffix(format)
        res == template(filename, nm, suffix.value)
    IN  IF suffix.thrown THEN suffix
        ELSE Returned(IF compress
                      THEN basename(res, extname(res)) \o DotMin \o extname(res)
                      ELSE res)

----------------------------------------------------------------------------
(* Plugin Loader.  What require() does with a module is the environment's: *)
(* mods maps a module name to one of LoadOutcomes.                         *)

\* "ok": the module loads and its factory returns a plugin.
\* "missing": no such module can be resolved.
\* "depMissing", "depMissingNamed": the module is there, but a module it
\*   requires is not; the second when that module's name starts with the
\*   plugin's (rollup-plugin-x-runtime), so the message holds moduleName.
\* "loadThrows": the module is there and throws while it is evaluated.
\* "initThrows": the module loads and its factory throws.
LoadOutcomes == {"ok", "missing", "depMissing", "depMissingNamed", "loadThrows", "initThrows"}

\* the error object require(moduleName) or the factory throws
RequireError(moduleName, outcome) ==
    CASE outcome = "missing" ->
           [kind |-> "Error", code |-> "MODULE_NOT_FOUND",
            message |-> <<"Cannot find module '", "node_modules/", moduleName, "'">>,
            origin |-> moduleName]
      [] outcome = "depMissing" ->
           [kind |-> "Error", code |-> "MODULE_NOT_FOUND",
            message |-> <<"Cannot find module '", "a-dependency", "'">>,
            origin |-> moduleName]
      [] outcome = "depMissingNamed" ->
           [kind |-> "Error", code |-> "MODULE_NOT_FOUND",
            message |-> <<"Cannot find module '", moduleName, "-runtime", "'">>,
            origin |-> moduleName]
      [] outcome = "loadThrows" ->
           [kind |-> "SyntaxError", code |-> "",
            message |-> <<"Unexpected token">>, origin |-> moduleName]
      [] OTHER ->
           [kind |-> "TypeError", code |-> "",
            message |-> <<"Invalid plugin options">>, origin |-> moduleName]

\* err.message.includes(moduleName)
MessageIncludes(err, moduleName) ==
    \E i \in 1..Len(err.message) : err.message[i] = moduleName

\* always throws: a BiliError for a missing module, err itself otherwise
handleLoadPluginError(moduleName, err) ==
    IF err.code = "MODULE_NOT_FOUND" /\ MessageIncludes(err, moduleName)
    THEN Thrown(BiliError(<<"Cannot find plugin \"", moduleName,
                            "\" in current directory!\n",
                            "You may run \"npm install -D ", moduleName,
                            "\" to install it.">>))
    ELSE Thrown(err)

\* require(moduleName) / localRequire(moduleName): the factory, or a throw
Require(mods, moduleName) ==
    IF mods[moduleName] \in {"ok", "initThrows"}
    THEN Returned(moduleName)
    ELSE Thrown(RequireError(moduleName, mods[moduleName]))

\* factory(options): the plugin, or a throw
Instantiate(mods, moduleName, pluginOptions) ==
    IF mods[moduleName] = "ok"
    THEN Returned([type |-> "instance", name |-> moduleName, options |-> pluginOptions])
    ELSE Thrown(RequireError(moduleName, mods[moduleName]))

ModuleName(pluginName) == "rollup-plugin-" \o pluginName

getJsPlugin(mods, name) ==
    LET moduleName == ModuleName(name)
        req == Require(mods, moduleName)
    IN  IF req.thrown THEN handleLoadPluginError(moduleName, req.error) ELSE req

\* a plugin the user names, and one the user passes as an object
NamedPlugin(n) == [type |-> "string", name |-> n, options |-> <<>>]
ObjectPlugin(n) == [type |-> "object", name |-> n, options |-> <<>>]

\* filename.replace(/\.[^.]+$/, '.css')
ReplaceExtWithCss(filename) ==
    LET d == LastIndexOf(filename, ".")
    IN  IF d = 0 \/ d = Len(filename) THEN filename
        ELSE SubSeq(filename, 1, d - 1) \o DotCss

\* the options the plugin's factory is called with
PluginOptions(opts, pluginName, filename) ==
    IF pluginName = "vue"
    THEN <<"css", opts.outDir \o <<"/">> \o ReplaceExtWithCss(filename)>>
    ELSE IF pluginName = "postcss" THEN <<"extract", TRUE>>
    ELSE <<>>

\* one element of plugins.map(...)
LoadUserPlugin(opts, mods, plugin, filename) ==
    IF plugin.type = "object" THEN Returned(plugin)
    ELSE LET moduleName == ModuleName(plugin.name)
             req == Require(mods, moduleName)
             made == Instantiate(mods, moduleName,
                                 PluginOptions(opts, plugin.name, filename))
         IN  IF req.thrown THEN handleLoadPluginError(moduleName, req.error)
             ELSE IF made.thrown THEN handleLoadPluginError(moduleName, made.error)
             ELSE made

\* plugins.map(...): in order, the first throw ends it
RECURSIVE LoadPluginsFrom(_, _, _, _)
LoadPluginsFrom(opts, mods, plugins, filename) ==
    IF plugins = <<>> THEN Returned(<<>>)
    ELSE LET first == LoadUserPlugin(opts, mods, Head(plugins), filename)
             rest == LoadPluginsFrom(opts, mods, Tail(plugins), filename)
         IN  IF first.thrown THEN first
             ELSE IF rest.thrown THEN rest
             ELSE Returned(<<first.value>> \o rest.value)

loadUserPlugins(opts, mods, filename) ==
    LoadPluginsFrom(opts, mods, opts.plugin, filename)

----------------------------------------------------------------------------
(* Options.                                                                *)

\* String.prototype.split(sep), sep one character
RECURSIVE Split(_, _)
Split(s, sep) ==
    LET hits == {i \in 1..Len(s) : s[i] = sep}
        k == CHOOSE i \in hits : \A j \in hits : i <= j
    IN  IF hits = {} THEN <<s>>
        ELSE <<SubSeq(s, 1, k - 1)>> \o Split(SubSeq(s, k + 1, Len(s)), sep)

\* an option given as an array, given as a comma-separated string, or not given
ArrayOption(list) == [type |-> "array", value |-> list]
StringOption(str) == [type |-> "string", value |-> str]
Unset == [type |-> "undefined", value |-> <<>>]

\* getArrayOption(name): the list, the string split at its commas, or undefined
getArrayOption(option) ==
    IF option.type = "string" THEN ArrayOption(Split(option.value, ","))
    ELSE option

\* const FORMATS = ['cjs']
FORMATS == <<cjs>>

\* this.getArrayOption('format') || FORMATS
RequestedFormats(opts) ==
    LET f == getArrayOption(opts.format)
    IN  IF f.type = "undefined" THEN FORMATS ELSE f.value

\* the glob pattern bundle() hands to globby
DefaultInput == SrcIndexJs
InputPattern(opts) ==
    IF opts.input.type = "undefined" THEN DefaultInput
    ELSE IF opts.input.type = "array" /\ opts.input.value = <<>> THEN DefaultInput
    ELSE opts.input.value

----------------------------------------------------------------------------
(* Config Builder.                                                         *)

\* this.resolveCwd(outDir, outFilename), as a path below the project directory
resolveCwd(outDir, outFilename) == outDir \o <<"/">> \o outFilename

\* a plugin bili itself puts in the pipeline
BuiltIn(n) == [type |-> "builtin", name |-> n, options |-> <<>>]

\* createConfig({ input, format, compress }): the engine config, or a throw.
\* The options alias, replace, env and inline are not set.
createConfig(opts, mods, task) ==
    LET outFilename == getFilename(task.input, task.format, opts.filename,
                                   task.compress, opts.name)
        jsPluginName == IF opts.js = "" THEN "buble" ELSE opts.js
        jsPlugin == getJsPlugin(mods, jsPluginName)
        user == loadUserPlugins(opts, mods, outFilename.value)
        babel == IF jsPluginName = "buble"
                 THEN LET r == Require(mods, ModuleName("babel"))
                      IN  IF r.thrown THEN r
                          ELSE Instantiate(mods, ModuleName("babel"), <<"buble", TRUE>>)
                 ELSE Returned(<<>>)
        js == Instantiate(mods, ModuleName(jsPluginName), <<>>)
        inline == task.format = umd
    IN  IF outFilename.thrown THEN outFilename
        ELSE IF jsPlugin.thrown THEN jsPlugin
        ELSE IF user.thrown THEN user
        ELSE IF babel.thrown THEN babel
        ELSE IF js.thrown THEN js
        ELSE Returned(
               [input |-> task.input,
                format |-> task.format,
                compress |-> task.compress,
                file |-> resolveCwd(opts.outDir, outFilename.value),
                sourcemap |-> task.compress,
                plugins |->
                    <<BuiltIn("hashbang")>>
                    \o user.value
                    \o (IF jsPluginName = "buble" THEN <<babel.value>> ELSE <<>>)
                    \o <<js.value>>
                    \o (IF inline THEN <<BuiltIn("commonjs"), BuiltIn("node-resolve")>>
                        ELSE <<>>)
                    \o <<BuiltIn("json")>>
                    \o (IF task.compress THEN <<BuiltIn("uglify")>> ELSE <<>>)
                    \o <<BuiltIn("bili")>>])

----------------------------------------------------------------------------
(* Orchestrator: the task list.                                            *)

TasksOfInputKeepingMarker(input, formats) ==
    [i \in 1..Len(formats) |->
        [input |-> input,
         format |-> formats[i],
         compress |-> EndsWith(formats[i], MinMarker)]]

\* formats.map(format => ({ input, format: format.replace(/-min$/, ''), compress }))
TasksOfInput(input, formats) ==
    [i \in 1..Len(formats) |->
        LET compress == EndsWith(formats[i], MinMarker)
        IN  [input |-> input,
             format |-> IF EndsWith(formats[i], MinMarker)
                        THEN SubSeq(formats[i], 1, Len(formats[i]) - Len(MinMarker))
                        ELSE formats[i],
             compress |-> compress]]

\* inputFiles.reduce((res, input) => [...res, ...formats.map(...)], [])
RECURSIVE ResolvedTasks(_, _)
ResolvedTasks(inputFiles, formats) ==
    IF inputFiles = <<>> THEN <<>>
    ELSE LET n == Len(inputFiles)
         IN  ResolvedTasks(SubSeq(inputFiles, 1, n - 1), formats)
             \o TasksOfInput(inputFiles[n], formats)

----------------------------------------------------------------------------
(* State.                                                                  *)

VARIABLES
    options,      \* this.options, set by the constructor
    mods,         \* the environment: what require() does with each module
    bundles,      \* this.bundles: output file path -> artifact record
    pc,           \* where bundle() is: "idle", "join", "tick", "done", "failed"
    calls,        \* how many times bundle() was called on the instance
    inputFiles,   \* bundle()'s inputFiles, after globby
    tasks,        \* bundle()'s `options` list: {input, format, compress}
    actions,      \* bundle()'s `actions`: one async closure per task
    outcome,      \* how the bundle() call ended
    firstFailed,  \* the task whose promise rejected first, 0 when none did
    engineCalls,  \* the calls made to rollup during this bundle() call
    checks,       \* how often nextTick's callback ran in this bundle() call
    emitted,      \* the events the watch sessions emitted, in order
    reported,     \* the errors handed to handleError, in order
    log,          \* the lines the 'event' listeners printed, in order
    exitCode,     \* process.exitCode
    probe         \* the helper under test and its result (helper runs only)

orchVars == <<options, mods, bundles, pc, calls, inputFiles, tasks, actions,
              outcome, firstFailed, engineCalls, checks, emitted, reported, log,
              exitCode>>

vars == <<options, mods, bundles, pc, calls, inputFiles, tasks, actions,
          outcome, firstFailed, engineCalls, checks, emitted, reported, log,
          exitCode, probe>>

\* bounds of the model
MaxCalls == 2
MaxEvents == 2

NoProbe == [op |-> "none", args |-> <<>>, done |-> FALSE, result |-> <<>>]

Pending == [status |-> "pending", error |-> NoError]
Success == [status |-> "success", error |-> NoError]
Rejected(e) == [status |-> "rejected", error |-> e]

\* the error rollup rejects task t's promise with, or reports in a watch event
EngineError(t) == [kind |-> "RollupError", code |-> "", message |-> <<"rollup failed">>,
                   origin |-> <<"task", t>>]

TaskIds == 1..Len(actions)

\* jobs of the microtask queue: they run before any timer or I/O callback
MicrotaskPending ==
    \E t \in TaskIds : actions[t].collector = "queued"

Settled(t) == actions[t].st \in {"fulfilled", "rejected"} /\ actions[t].collector # "queued"

\* bundles after the bili plugin's ongenerate ran for task t
Collect(t) ==
    [f \in (DOMAIN bundles) \cup {actions[t].file} |->
        IF f = actions[t].file
        THEN [input |-> tasks[t].input, format |-> tasks[t].format,
              compress |-> tasks[t].compress]
        ELSE bundles[f]]

----------------------------------------------------------------------------
(* await Promise.all(actions), then the rest of bundle().                  *)

\* a join that waits for every closure to settle and then goes on
JoinWaitingForAll(at, acts, first) ==
    IF at # "join" THEN [pc |-> at, outcome |-> outcome]
    ELSE IF \A t \in DOMAIN acts : acts[t].st \in {"fulfilled", "watching", "rejected"}
         THEN [pc |-> "tick", outcome |-> Pending]
    ELSE [pc |-> "join", outcome |-> Pending]

\* at: where bundle() is; acts: the closures after a step (a closure in watch
\* mode has returned once its session is started); first: the first task to
\* have rejected.  Gives bundle()'s next position and outcome.
Join(at, acts, first) ==
    IF at # "join" THEN [pc |-> at, outcome |-> outcome]
    ELSE IF first # 0 THEN [pc |-> "failed", outcome |-> Rejected(acts[first].error)]
    ELSE IF \A t \in DOMAIN acts : acts[t].st \in {"fulfilled", "watching"}
         THEN [pc |-> "tick", outcome |-> Pending]
    ELSE [pc |-> "join", outcome |-> Pending]

\* the first to reject, once task t rejects
FirstAfter(t) == IF firstFailed = 0 THEN t ELSE firstFailed

\* the message of the collision error
CollisionMessage ==
    LET hasName == Includes(options.filename, NameToken)
        hasSuffix == Includes(options.filename, SuffixToken)
    IN  <<"Multiple files are emitting to the same path.\nPlease check if ",
          IF hasName \/ Len(inputFiles) = 1 THEN ""
          ELSE IF hasSuffix THEN "[name]" ELSE "[name] or ",
          IF hasSuffix THEN "" ELSE "[suffix]",
          " is missing in filename option.">>

\* the callback bundle() passes to nextTick: it throws or returns
CountCheck ==
    IF Cardinality(DOMAIN bundles) < Len(RequestedFormats(options)) * Len(inputFiles)
    THEN Thrown(BiliError(CollisionMessage))
    ELSE Returned(<<>>)

----------------------------------------------------------------------------
(* The environment of a run: the files globby finds, the instance's        *)
(* options, the modules require() finds.                                   *)

SrcGlob == <<"s", "r", "c", "/", "*", ".", "j", "s">>

\* globby(pattern), each match relative to process.cwd(): the literal path
\* matches the file or nothing
Globby(pattern) ==
    IF pattern = SrcGlob
    THEN {<<>>, <<SrcIndexJs>>, <<SrcFooJs, SrcIndexJs>>}
    ELSE {<<>>, <<pattern>>}

ModuleNames == {ModuleName("buble"), ModuleName("babel"), ModuleName("vue")}

OptionSets ==
    [input : {Unset, ArrayOption(<<>>), StringOption(SrcGlob)},
     outDir : {Dist},
     filename : {DefaultFilename, NameOnlyFilename},
     format : {Unset,
               StringOption(cjs \o <<",">> \o es),
               ArrayOption(<<foo, cjs \o MinMarker>>)},
     plugin : {<<>>, <<NamedPlugin("vue")>>},
     js : {""},
     name : {<<>>},
     watch : BOOLEAN]

\* the instance after new Bili(options), before any call
Constructed ==
    /\ bundles = <<>>
    /\ pc = "idle"
    /\ calls = 0
    /\ inputFiles = <<>>
    /\ tasks = <<>>
    /\ actions = <<>>
    /\ outcome = [status |-> "none", error |-> NoError]
    /\ firstFailed = 0
    /\ engineCalls = {}
    /\ checks = 0
    /\ emitted = <<>>
    /\ reported = <<>>
    /\ log = <<>>
    /\ exitCode = "undefined"

\* new Bili(options): outDir and filename have defaults, bundles is empty.
\* The transpiler's modules are installed, rollup-plugin-vue is not.
Init ==
    /\ options \in OptionSets
    /\ mods = [m \in ModuleNames |-> IF m = ModuleName("vue") THEN "missing" ELSE "ok"]
    /\ Constructed
    /\ probe = NoProbe

----------------------------------------------------------------------------
(* bundle().                                                               *)

\* the closure of task t, run from the start of createConfig until it waits
\* for rollup: createConfig throws, or (after `await this.createConfig(option)`)
\* watch(...) is called and the listener registered, and the closure returns,
\* or rollup(inputOptions) is called
Started(t, list) ==
    LET c == createConfig(options, mods, list[t])
    IN  IF c.thrown
        THEN [st |-> "rejected", file |-> <<>>, error |-> c.error,
              collector |-> "none", listening |-> FALSE, built |-> FALSE]
        ELSE IF options.watch
        THEN [st |-> "watching", file |-> c.value.file, error |-> NoError,
              collector |-> "none", listening |-> TRUE, built |-> FALSE]
        ELSE [st |-> "rollup", file |-> c.value.file, error |-> NoError,
              collector |-> "none", listening |-> FALSE, built |-> FALSE]

\* the least task of acts that is rejected, 0 when none is
FirstRejected(acts) ==
    LET r == {t \in DOMAIN acts : acts[t].st = "rejected"}
    IN  IF r = {} THEN 0 ELSE CHOOSE t \in r : \A u \in r : t <= u

\* if (inputFiles.length === 0) throw ...
NoMatchedFilesIgnored(matched) == FALSE

NoMatchedFiles(matched) == Len(matched) = 0

\* bundle(), from its start until it waits in `await Promise.all(actions)`
\* and the closures wait for rollup: the closures are created one after the
\* other, and each has run as far as it can before anything rollup does is
\* seen.  The previous call's tasks have settled.
Bundle(matched) ==
    /\ pc \in {"idle", "done", "failed"}
    /\ calls < MaxCalls
    /\ \A t \in TaskIds : Settled(t)
    /\ matched \in Globby(InputPattern(options))
    /\ calls' = calls + 1
    /\ inputFiles' = matched
    /\ checks' = 0
    /\ IF NoMatchedFiles(matched)
       THEN /\ tasks' = <<>>
            /\ actions' = <<>>
            /\ firstFailed' = 0
            /\ engineCalls' = {}
            /\ pc' = "failed"
            /\ outcome' = Rejected(BiliError(<<"No matched files to bundle.">>))
       ELSE /\ tasks' = ResolvedTasks(matched, RequestedFormats(options))
            /\ actions' = [t \in 1..Len(tasks') |-> Started(t, tasks')]
            /\ firstFailed' = FirstRejected(actions')
            /\ engineCalls' =
                  {<<t, IF options.watch THEN "watch" ELSE "rollup">> :
                      t \in {u \in 1..Len(tasks') : actions'[u].st # "rejected"}}
            /\ pc' = Join("join", actions', firstFailed').pc
            /\ outcome' = Join("join", actions', firstFailed').outcome
    /\ UNCHANGED <<options, mods, bundles, emitted, reported, log, exitCode, probe>>

\* task t's promise rejects with e
Reject(t, e) ==
    /\ actions' = [actions EXCEPT ![t].st = "rejected", ![t].error = e]
    /\ firstFailed' = FirstAfter(t)
    /\ pc' = Join(pc, actions', firstFailed').pc
    /\ outcome' = Join(pc, actions', firstFailed').outcome

\* task t's promise fulfils; collector: "done" or "queued"
Fulfil(t, collector) ==
    /\ actions' = [actions EXCEPT ![t].st = "fulfilled", ![t].collector = collector]
    /\ firstFailed' = firstFailed
    /\ pc' = Join(pc, actions', firstFailed').pc
    /\ outcome' = Join(pc, actions', firstFailed').outcome

\* rollup(inputOptions) settles: the closure goes on to bundle.write (or, with
\* write: false, bundle.generate: "output"), or its promise rejects
RollupSettles(t) ==
    /\ ~MicrotaskPending
    /\ actions[t].st = "rollup"
    /\ \/ /\ actions' = [actions EXCEPT ![t].st = "output"]
          /\ engineCalls' = engineCalls \cup {<<t, "output">>}
          /\ UNCHANGED <<pc, outcome, firstFailed>>
       \/ /\ Reject(t, EngineError(t))
          /\ UNCHANGED engineCalls
    /\ UNCHANGED <<options, mods, bundles, calls, inputFiles, tasks, checks,
                   emitted, reported, log, exitCode, probe>>

\* bundle.write / bundle.generate settles.  rollup calls the bili plugin's
\* ongenerate while it generates, before the promise settles, or at the latest
\* in a job of the microtask queue; a failure comes before or after it.
OutputSettles(t) ==
    /\ ~MicrotaskPending
    /\ actions[t].st = "output"
    /\ \/ /\ bundles' = Collect(t)
          /\ Fulfil(t, "done")
       \/ /\ bundles' = bundles
          /\ Fulfil(t, "queued")
       \/ /\ bundles' = bundles
          /\ Reject(t, EngineError(t))
       \/ /\ bundles' = Collect(t)
          /\ Reject(t, EngineError(t))
    /\ UNCHANGED <<options, mods, calls, inputFiles, tasks, engineCalls, checks,
                   emitted, reported, log, exitCode, probe>>

\* the bili plugin's ongenerate, run from the microtask queue
Collector(t) ==
    /\ actions[t].collector = "queued"
    /\ bundles' = Collect(t)
    /\ actions' = [actions EXCEPT ![t].collector = "done"]
    /\ UNCHANGED <<options, mods, pc, calls, inputFiles, tasks, outcome,
                   firstFailed, engineCalls, checks, emitted, reported, log, exitCode,
                   probe>>

\* nextTick's setTimeout callback is due: a timer runs once the microtask
\* queue is empty
TimerDueEarly == pc = "tick"

TimerDue == pc = "tick" /\ ~MicrotaskPending

\* nextTick(fn): fn runs in the timer's callback; bundle() returns `this` or
\* throws what fn threw
NextTick ==
    /\ TimerDue
    /\ checks' = checks + 1
    /\ pc' = IF CountCheck.thrown THEN "failed" ELSE "done"
    /\ outcome' = IF CountCheck.thrown THEN Rejected(CountCheck.error) ELSE Success
    /\ UNCHANGED <<options, mods, bundles, calls, inputFiles, tasks, actions,
                   firstFailed, engineCalls, emitted, reported, log, exitCode, probe>>

----------------------------------------------------------------------------
(* Watch sessions.                                                         *)

EventCodes == {"ERROR", "FATAL", "BUNDLE_END"}

\* ./handle-error: the shared handler reports the error and returns
handleError(err) == Append(reported, err)

\* the line the listener prints on BUNDLE_END
OutputLine(t) == [input |-> tasks[t].input, output |-> actions[t].file]

ListenerClosingOnFatal(t, code) ==
    [reported |-> IF code \in {"ERROR", "FATAL"} THEN handleError(EngineError(t))
                  ELSE reported,
     exitCode |-> IF code = "BUNDLE_END" THEN "0" ELSE exitCode,
     log |-> IF code = "BUNDLE_END" THEN Append(log, OutputLine(t)) ELSE log,
     listening |-> code # "FATAL"]

\* watcher.on('event', async e => ...): what the listener of task t's session
\* does with an event, and whether it is still registered afterwards
Listener(t, code) ==
    [reported |-> IF code \in {"ERROR", "FATAL"} THEN handleError(EngineError(t))
                  ELSE reported,
     exitCode |-> IF code = "BUNDLE_END" THEN "0" ELSE exitCode,
     log |-> IF code = "BUNDLE_END" THEN Append(log, OutputLine(t)) ELSE log,
     listening |-> TRUE]

\* task t's session generates a bundle: the bili plugin's ongenerate runs
WatchBuild(t) ==
    /\ ~MicrotaskPending
    /\ actions[t].st = "watching"
    /\ ~actions[t].built
    /\ Len(emitted) < MaxEvents
    /\ bundles' = Collect(t)
    /\ actions' = [actions EXCEPT ![t].built = TRUE]
    /\ UNCHANGED <<options, mods, pc, calls, inputFiles, tasks, outcome,
                   firstFailed, engineCalls, checks, emitted, reported, log, exitCode,
                   probe>>

\* task t's session emits an event: BUNDLE_END once a bundle is written, ERROR
\* or FATAL at any time.  The listener runs if it is registered.
WatchEmit(t, code) ==
    /\ ~MicrotaskPending
    /\ actions[t].st = "watching"
    /\ Len(emitted) < MaxEvents
    /\ code = "BUNDLE_END" => actions[t].built
    /\ emitted' = Append(emitted, <<t, code>>)
    /\ IF actions[t].listening
       THEN LET l == Listener(t, code)
            IN  /\ reported' = l.reported
                /\ log' = l.log
                /\ exitCode' = l.exitCode
                /\ actions' = [actions EXCEPT
                                 ![t].listening = l.listening,
                                 ![t].built = IF code = "BUNDLE_END" THEN FALSE ELSE @]
       ELSE /\ UNCHANGED <<reported, log, exitCode>>
            /\ actions' = [actions EXCEPT
                             ![t].built = IF code = "BUNDLE_END" THEN FALSE ELSE @]
    /\ UNCHANGED <<options, mods, bundles, pc, calls, inputFiles, tasks, outcome,
                   firstFailed, engineCalls, checks, probe>>

----------------------------------------------------------------------------

Next ==
    \/ \E matched \in Globby(InputPattern(options)) : Bundle(matched)
    \/ \E t \in TaskIds : RollupSettles(t)
    \/ \E t \in TaskIds : OutputSettles(t)
    \/ \E t \in TaskIds : Collector(t)
    \/ NextTick
    \/ \E t \in TaskIds : WatchBuild(t)
    \/ \E t \in TaskIds, code \in EventCodes : WatchEmit(t, code)

Spec == Init /\ [][Next]_vars

----------------------------------------------------------------------------
(* Runs of the helpers alone: the instance is constructed with the         *)
(* constructor's defaults, a helper is applied to arguments drawn from     *)
(* small sets, and probe holds the arguments and the result.               *)

\* the options of new Bili({})
DefaultOptions ==
    [input |-> Unset, outDir |-> Dist, filename |-> DefaultFilename, format |-> Unset,
     plugin |-> <<>>, js |-> "", name |-> <<>>, watch |-> FALSE]

AllInstalled == [m \in ModuleNames |-> "ok"]

\* bounds of the helper runs
MaxInputs == 2
MaxFormats == 2
MaxPlugins == 2

\* the sequences over S of length lo..hi
SeqsOf(S, lo, hi) == UNION {[1..n -> S] : n \in lo..hi}

NoRepeat(q) == \A i, j \in 1..Len(q) : i # j => q[i] # q[j]

\* --- getSuffix and getFilename

FilenameArgs ==
    [input : {SrcIndexJs, SrcFooJs, LibIndexJs},
     format : {cjs, es, umd, foo},
     filename : {DefaultFilename, NameOnlyFilename, DirFilename, BareFilename,
                 OutJsFilename},
     name : {<<>>, <<"l", "i", "b">>}]

InitFilename ==
    /\ options = DefaultOptions
    /\ mods = AllInstalled
    /\ Constructed
    /\ probe \in [op : {"getFilename"}, args : FilenameArgs, done : {FALSE},
                  result : {<<>>}]

\* getSuffix(format) and getFilename(...) without and with compress
ApplyGetFilename ==
    /\ probe.op = "getFilename"
    /\ ~probe.done
    /\ probe' = [probe EXCEPT !.done = TRUE, !.result =
                    [suffix |-> getSuffix(probe.args.format),
                     plain |-> getFilename(probe.args.input, probe.args.format,
                                           probe.args.filename, FALSE, probe.args.name),
                     min |-> getFilename(probe.args.input, probe.args.format,
                                         probe.args.filename, TRUE, probe.args.name)]]
    /\ UNCHANGED orchVars

SpecFilename == InitFilename /\ [][ApplyGetFilename]_vars

\* --- the task list

FormatEntries ==
    {cjs, es, umd, cjs \o MinMarker, umd \o MinMarker, MinMarker,
     cjs \o MinMarker \o MinMarker, <<"m", "i", "n">>}

InitTasks ==
    /\ options = DefaultOptions
    /\ mods = AllInstalled
    /\ Constructed
    /\ probe \in [op : {"tasks"},
                  args : [inputFiles : {q \in SeqsOf({SrcIndexJs, SrcFooJs, LibIndexJs},
                                                     1, MaxInputs) : NoRepeat(q)},
                          formats : SeqsOf(FormatEntries, 1, MaxFormats)],
                  done : {FALSE},
                  result : {<<>>}]

\* the `options` list bundle() builds from inputFiles and formats
ApplyResolvedTasks ==
    /\ probe.op = "tasks"
    /\ ~probe.done
    /\ probe' = [probe EXCEPT !.done = TRUE, !.result =
                    ResolvedTasks(probe.args.inputFiles, probe.args.formats)]
    /\ UNCHANGED orchVars

SpecTasks == InitTasks /\ [][ApplyResolvedTasks]_vars

\* --- createConfig with user plugins and a transpiler

PluginModuleNames ==
    ModuleNames \cup {ModuleName("postcss"), ModuleName("typescript")}

\* rollup-plugin-buble and rollup-plugin-babel come with bili; the plugins
\* the user names may be in any condition
InitPlugins ==
    /\ options \in {[DefaultOptions EXCEPT !.plugin = p, !.js = j] :
                      p \in SeqsOf({NamedPlugin("vue"), NamedPlugin("postcss"),
                                    ObjectPlugin("custom")}, 0, MaxPlugins),
                      j \in {"", "typescript"}}
    /\ mods \in {m \in [PluginModuleNames -> LoadOutcomes] :
                    /\ m[ModuleName("buble")] = "ok"
                    /\ m[ModuleName("babel")] = "ok"
                    /\ options.js = "" => m[ModuleName("typescript")] = "ok"}
    /\ Constructed
    /\ probe = [op |-> "createConfig",
                args |-> [input |-> SrcIndexJs, format |-> cjs, compress |-> FALSE],
                done |-> FALSE, result |-> <<>>, invoked |-> FALSE]

\* the start of a task's closure: createConfig(option)
ApplyCreateConfig ==
    /\ probe.op = "createConfig"
    /\ ~probe.done
    /\ probe' = [probe EXCEPT !.done = TRUE,
                              !.result = createConfig(options, mods, probe.args)]
    /\ UNCHANGED orchVars

\* the closure after `await this.createConfig(option)`: it calls rollup
InvokeEngine ==
    /\ probe.op = "createConfig"
    /\ probe.done
    /\ ~probe.result.thrown
    /\ ~probe.invoked
    /\ probe' = [probe EXCEPT !.invoked = TRUE]
    /\ UNCHANGED orchVars

NextPlugins == ApplyCreateConfig \/ InvokeEngine

SpecPlugins == InitPlugins /\ [][NextPlugins]_vars

----------------------------------------------------------------------------
(* Claims about the helpers.                                               *)

\* C5: getSuffix maps cjs to ".cjs", es to ".m" and umd to "", and for any
\* other format returns nothing and makes the build fail with an error of the
\* configuration-error kind (a BiliError, as for no matched files and for the
\* filename collision) saying "unsupported format".
C5_SuffixOrConfigurationError ==
    (probe.op = "getFilename" /\ probe.done) =>
        LET f == probe.args.format
            r == probe.result.suffix
        IN  /\ f = cjs => r = Returned(<<".", "c", "j", "s">>)
            /\ f = es => r = Returned(<<".", "m">>)
            /\ f = umd => r = Returned(<<>>)
            /\ f \notin {cjs, es, umd} =>
                  /\ r.thrown
                  /\ r.value = <<>>
                  /\ r.error.kind = "BiliError"
                  /\ r.error.message = <<"unsupported format">>
                  /\ probe.result.plain = r
                  /\ probe.result.min = r

\* `res` with ".min" put right before its last extension, the rest kept
WithMinBeforeExtension(res) ==
    LET ext == extname(res)
    IN  SubSeq(res, 1, Len(res) - Len(ext)) \o DotMin \o ext

\* C6: for every filename pattern (also one with directories), input and
\* supported format, the compressed output filename is the uncompressed one
\* with ".min" inserted right before its final extension and nothing else
\* changed; "[name][suffix].js", "src/index.js", cjs give "index.cjs.js" and
\* "index.cjs.min.js".
C6_MinBeforeExtension ==
    (probe.op = "getFilename" /\ probe.done /\ ~probe.result.plain.thrown) =>
        /\ ~probe.result.min.thrown
        /\ probe.result.min.value = WithMinBeforeExtension(probe.result.plain.value)
        /\ (/\ probe.args.filename = DefaultFilename
            /\ probe.args.input = SrcIndexJs
            /\ probe.args.format = cjs
            /\ probe.args.name = <<>>) =>
              /\ probe.result.plain.value =
                    <<"i", "n", "d", "e", "x", ".", "c", "j", "s", ".", "j", "s">>
              /\ probe.result.min.value =
                    <<"i", "n", "d", "e", "x", ".", "c", "j", "s", ".", "m", "i", "n",
                      ".", "j", "s">>

\* e ends with "-min"
EndsInMinMarker(e) ==
    /\ Len(e) >= 4
    /\ e[Len(e) - 3] = "-"
    /\ e[Len(e) - 2] = "m"
    /\ e[Len(e) - 1] = "i"
    /\ e[Len(e)] = "n"

\* C2: the task list is the cross product of the input files and the format
\* entries, input by input: |inputFiles| x |formats| tasks; a task's format is
\* its entry without a trailing "-min", and its compress flag is set exactly
\* when the entry ended with "-min".
C2_CrossProduct ==
    (probe.op = "tasks" /\ probe.done) =>
        LET ins == probe.args.inputFiles
            fs == probe.args.formats
            r == probe.result
        IN  /\ Len(r) = Len(ins) * Len(fs)
            /\ \A i \in 1..Len(ins), j \in 1..Len(fs) :
                  LET task == r[(i - 1) * Len(fs) + j]
                      e == fs[j]
                  IN  /\ task.input = ins[i]
                      /\ task.compress = EndsInMinMarker(e)
                      /\ task.compress => e = task.format \o MinMarker
                      /\ ~task.compress => e = task.format

C2_Witness ==
    /\ probe.op = "tasks"
    /\ probe.done
    /\ Len(probe.args.inputFiles) = 2
    /\ probe.args.formats = <<cjs \o MinMarker, es>>
    /\ Len(probe.result) = 4
    /\ probe.result[3] = [input |-> probe.args.inputFiles[2], format |-> cjs,
                          compress |-> TRUE]

\* the modules createConfig loads for the transpiler and the named plugins
LoadedModules ==
    {ModuleName(IF options.js = "" THEN "buble" ELSE options.js)}
    \cup {ModuleName(options.plugin[i].name) :
            i \in {k \in 1..Len(options.plugin) : options.plugin[k].type = "string"}}

\* the error the claim promises for a module that cannot be resolved
MissingPluginError(moduleName) ==
    BiliError(<<"Cannot find plugin \"", moduleName, "\" in current directory!\n",
                "You may run \"npm install -D ", moduleName, "\" to install it.">>)

\* C7: a named plugin (or transpiler) whose module rollup-plugin-<name> cannot
\* be resolved makes the build fail with a BiliError that carries the module
\* name and an install hint, and rollup is not called for the task; any other
\* failure of loading or instantiating a plugin is thrown on as the same error
\* object; a plugin given as an object is passed through, and the plugins keep
\* their order.  (Of several failing modules, the one met first decides.)
C7_PluginErrors ==
    (probe.op = "createConfig" /\ probe.done) =>
        LET r == probe.result
        IN  /\ r.thrown <=> \E m \in LoadedModules : mods[m] # "ok"
            /\ r.thrown =>
                  /\ ~probe.invoked
                  /\ \E m \in LoadedModules :
                        /\ mods[m] # "ok"
                        /\ r.error = IF mods[m] = "missing"
                                     THEN MissingPluginError(m)
                                     ELSE RequireError(m, mods[m])
            /\ ~r.thrown =>
                  \A i \in 1..Len(options.plugin) :
                      LET given == options.plugin[i]
                          got == r.value.plugins[i + 1]
                      IN  IF given.type = "object" THEN got = given
                          ELSE got.name = ModuleName(given.name)

----------------------------------------------------------------------------
(* Claims about bundle().                                                  *)

OneShot == ~options.watch

IsCollisionError(e) ==
    /\ e.kind = "BiliError"
    /\ e.message # <<>>
    /\ e.message[1] = "Multiple files are emitting to the same path.\nPlease check if "

\* two tasks of the call write to the same file
SamePath == \E t, u \in TaskIds : t # u /\ actions[t].file = actions[u].file

AllFulfilled == actions # <<>> /\ \A t \in TaskIds : actions[t].st = "fulfilled"

Returns == pc \in {"done", "failed"}

\* C1: a one-shot bundle() whose tasks all succeed and of which two compute
\* the same output path ends with the BiliError "Multiple files are emitting
\* to the same path" and does not return a success result.
C1_CollisionRaises ==
    (OneShot /\ AllFulfilled /\ SamePath /\ Returns) =>
        /\ outcome.status = "rejected"
        /\ IsCollisionError(outcome.error)

\* C1 on an instance whose bundle() is called for the first time
C1_CollisionRaisesFirstCall ==
    calls = 1 => C1_CollisionRaises

\* C3: when no file matches (also for the default pattern src/index.js),
\* bundle() throws the BiliError "No matched files to bundle.", and by then no
\* config was built and rollup was not called.
C3_NoMatchedFiles ==
    (calls > 0 /\ inputFiles = <<>>) =>
        /\ pc = "failed"
        /\ outcome = Rejected(BiliError(<<"No matched files to bundle.">>))
        /\ tasks = <<>>
        /\ actions = <<>>
        /\ engineCalls = {}
        /\ checks = 0

C3_Witness ==
    /\ calls > 0
    /\ inputFiles = <<>>
    /\ options.input = ArrayOption(<<>>)
    /\ InputPattern(options) = SrcIndexJs
    /\ pc = "failed"

\* task t's closure threw before it called rollup
FailedInConfig(t) ==
    /\ actions[t].st = "rejected"
    /\ <<t, "rollup">> \notin engineCalls

\* C4: one-shot, every task's closure is started whatever the others do, and
\* as soon as one task fails (in createConfig or in rollup) bundle() rejects
\* with the error of the first task to fail, the count check never runs and
\* bundle() does not return success, however the other tasks go on.
C4_FailFast ==
    (OneShot /\ calls > 0) =>
        /\ \A t \in TaskIds : FailedInConfig(t) \/ <<t, "rollup">> \in engineCalls
        /\ firstFailed # 0 =>
              /\ pc = "failed"
              /\ outcome = Rejected(actions[firstFailed].error)
              /\ checks = 0

C4_Witness ==
    /\ OneShot
    /\ Len(actions) = 4
    /\ firstFailed = 3
    /\ actions[3].error = EngineError(3)
    /\ actions[1].st = "fulfilled"
    /\ actions[2].st = "rejected"
    /\ actions[4].st = "output"
    /\ pc = "failed"

\* C8: with the watch option the count check is never run, so bundle() never
\* ends with the "Multiple files are emitting to the same path" error, also
\* when no session has generated anything by the time the closures are set up.
C8_NoCountCheckInWatchMode ==
    options.watch =>
        /\ checks = 0
        /\ ~(outcome.status = "rejected" /\ IsCollisionError(outcome.error))

\* C9: on a fresh instance, one-shot, all tasks succeeding with pairwise
\* distinct output paths: when the count check runs every task's collector
\* has written its record, the map holds one record per task under the task's
\* path, |inputFiles| x |formats| in all, and bundle() returns success.
C9_OneTickSuffices ==
    (OneShot /\ calls = 1 /\ checks > 0 /\ ~SamePath) =>
        /\ AllFulfilled
        /\ \A t \in TaskIds : actions[t].collector = "done"
        /\ DOMAIN bundles = {actions[t].file : t \in TaskIds}
        /\ Cardinality(DOMAIN bundles) = Len(inputFiles) * Len(RequestedFormats(options))
        /\ \A t \in TaskIds :
              bundles[actions[t].file] = [input |-> tasks[t].input,
                                          format |-> tasks[t].format,
                                          compress |-> tasks[t].compress]
        /\ pc = "done"
        /\ outcome = Success

C9_Witness ==
    /\ OneShot
    /\ calls = 1
    /\ checks = 1
    /\ Len(inputFiles) = 2
    /\ Len(RequestedFormats(options)) = 2
    /\ ~SamePath
    /\ Cardinality(DOMAIN bundles) = 4
    /\ outcome = Success

\* task t's closure threw in createConfig, before watch(...) was called
FailedInWatchConfig(t) ==
    /\ actions[t].st = "rejected"
    /\ <<t, "watch">> \notin engineCalls

IsErrorEvent(e) == e[2] \in {"ERROR", "FATAL"}
IsBundleEnd(e) == e[2] = "BUNDLE_END"

\* C10: in watch mode every ERROR or FATAL event is handed to handleError and
\* ends no session: each listener stays registered, every BUNDLE_END event
\* (also after an error of the same session) prints its line, and no error of
\* rollup becomes a rejection of bundle().
C10_WatchSurvivesErrors ==
    options.watch =>
        LET errs == SelectSeq(emitted, IsErrorEvent)
            ends == SelectSeq(emitted, IsBundleEnd)
        IN  /\ reported = [i \in 1..Len(errs) |-> EngineError(errs[i][1])]
            /\ log = [i \in 1..Len(ends) |->
                        [input |-> tasks[ends[i][1]].input,
                         output |-> actions[ends[i][1]].file]]
            /\ \A t \in TaskIds :
                  \/ actions[t].st = "watching" /\ actions[t].listening
                  \/ FailedInWatchConfig(t)
            /\ outcome.error.kind # "RollupError"

C10_Witness ==
    /\ options.watch
    /\ Len(emitted) = 2
    /\ emitted[1][2] = "FATAL"
    /\ emitted[2] = <<emitted[1][1], "BUNDLE_END">>
    /\ Len(log) = 1
    /\ Len(reported) = 1

====
